---- MODULE Spec2Model ----
(***************************************************************************)
(* The fetch / store / filter flow of the DataFetching application.        *)
(*                                                                         *)
(* The repository holds two application roots that are alternative builds  *)
(* of the same screen:                                                     *)
(*   - AppContent (src/unnamed/part_000): keeps search, loading and error  *)
(*     in component state, stores the fetched list with setPosts, fetches  *)
(*     on mount and on every press of "Reload Data";                       *)
(*   - PostsList (src/components/PostsList.tsx, mounted by                 *)
(*     src/app/index.tsx): fetches once on mount, stores with setProducts, *)
(*     and keeps its own searchTerm and filteredProducts.                  *)
(* The variable root says which of the two is mounted; the state of the    *)
(* other one stays as constructed.                                         *)
(*                                                                         *)
(* Strings the code inspects (titles, search text) are sequences of        *)
(* one-character strings, so that toLowerCase and includes are computed.   *)
(***************************************************************************)
EXTENDS Integers, Sequences, FiniteSets

VARIABLES
    root,              \* which root component is mounted
    \* ---- AppContent (src/unnamed/part_000) ----
    posts,             \* DataContext.posts, written by setPosts
    search,            \* useState("")
    loading,           \* useState(false)
    error,             \* useState<string | null>(null)
    calls,             \* the fetchPosts invocations, in the order they were issued
    settled,           \* the invocations that have run their finally, in that order
    \* ---- PostsList (src/components/PostsList.tsx) ----
    products,          \* DataContext.products, written by setProducts
    listLoading,       \* useState(true)
    listError,         \* useState<string | null>(null)
    searchTerm,        \* useState("")
    filteredProducts,  \* useState<Product[]>([])
    listCall,          \* the one fetchProducts invocation of the mount effect
    \* ---- handleSearch / renderProduct taken alone ----
    calc               \* the arguments and the results of one function under study

appVars == <<posts, search, loading, error, calls, settled>>
listVars == <<products, listLoading, listError, searchTerm, filteredProducts, listCall>>
vars == <<root, posts, search, loading, error, calls, settled,
          products, listLoading, listError, searchTerm, filteredProducts, listCall,
          calc>>

----------------------------------------------------------------------------
(* Bounds and program constants *)

\* number of fetchPosts invocations explored (the mount effect plus reloads)
MaxCalls == 2

\* products.slice(0, 30)
MaxPosts == 30

NULL == "<null>"

\* the list the DataProvider holds before any fetch (the provider's file is not
\* among the sources; the catalog is empty at startup)
InitialCatalog == <<>>

\* no function is under study while a component runs
NoCalc == [op |-> "none"]

\* the messages the two components pass to setError
AppFetchFailed == "Failed to fetch products. Please try again."
ListNoProducts == "No products found."
ListLoadFailed == "Failed to load products."

----------------------------------------------------------------------------
(* Strings *)

Min(a, b) == IF a <= b THEN a ELSE b

\* String.prototype.toLowerCase on one character (the letters used here)
LowerChar(c) ==
    CASE c = "P" -> "p"
      [] c = "H" -> "h"
      [] c = "G" -> "g"
      [] c = "A" -> "a"
      [] OTHER -> c

\* String.prototype.toLowerCase
ToLowerCase(s) == [k \in 1..Len(s) |-> LowerChar(s[k])]

\* String.prototype.includes: t occurs in s as a contiguous substring
Includes(s, t) ==
    \E off \in 0..(Len(s) - Len(t)) : SubSeq(s, off + 1, off + Len(t)) = t

\* Array.prototype.slice(a, b) for 0 <= a <= b
Slice(s, a, b) == SubSeq(s, a + 1, Min(b, Len(s)))

----------------------------------------------------------------------------
(* What the endpoint can answer *)

Titles == << <<"P","h">>, <<"G","a">>, <<"h","P","a">> >>

Item(n) == [id |-> n, title |-> Titles[(n % 3) + 1]]

Batch(first, n) == [k \in 1..n |-> Item(first + k)]

\* the product arrays a response can carry: empty, short, exactly the display
\* cap, and one more than the cap
AppBatches == { <<>>, Batch(0, 2), Batch(100, MaxPosts), Batch(200, MaxPosts + 1) }

\* PostsList never truncates; its batches vary order and content for the filter
ListBatches ==
    { <<>>, Batch(0, 1), Batch(0, 3), Batch(1, 2), <<Item(3), Item(1)>>,
      <<Item(2), Item(2)>>, <<Item(1), Item(3), Item(2), Item(6)>> }

\* the texts typed into the search box
Queries == { <<>>, <<"p","h">>, <<"H">>, <<"a">>, <<"x">> }
AppQueries == { <<>>, <<"p","h">> }

\* A response as the code sees it:
\*   kind "Pending"  : nothing settled yet
\*   kind "Reject"   : fetch() rejected (transport failure)
\*   kind "Resolved" : fetch() resolved with a Response carrying an HTTP status,
\*                     response.json() still pending
\*   kind "BadJson"  : response.json() rejected (body is not JSON)
\*   kind "JsonNull" : the body is the JSON value null
\*   kind "NoField"  : the body is a JSON object without a products field
\*   kind "Products" : the body is a JSON object whose products field is an array
\* fetch() resolves for every HTTP status; neither component reads the status.
Statuses == {200, 500}

Pending == [kind |-> "Pending", status |-> 0, products |-> <<>>]
Rejected == [kind |-> "Reject", status |-> 0, products |-> <<>>]
Resolved(status) == [kind |-> "Resolved", status |-> status, products |-> <<>>]

Bodies(batches) ==
    { [kind |-> k, products |-> <<>>] : k \in {"BadJson", "JsonNull", "NoField"} }
    \cup { [kind |-> "Products", products |-> b] : b \in batches }

WithBody(resp, body) ==
    [kind |-> body.kind, status |-> resp.status, products |-> body.products]

----------------------------------------------------------------------------
(* Construction *)

Init ==
    /\ root \in {"AppContent", "PostsList"}
    /\ posts = InitialCatalog
    /\ search = <<>>
    /\ loading = FALSE
    /\ error = NULL
    /\ calls = <<>>
    /\ settled = <<>>
    /\ products = InitialCatalog
    /\ listLoading = TRUE
    /\ listError = NULL
    /\ searchTerm = <<>>
    /\ filteredProducts = <<>>
    /\ listCall = [pc |-> "init", resp |-> Pending]
    /\ calc = NoCalc

----------------------------------------------------------------------------
(* AppContent *)

InFlight == { i \in 1..Len(calls) : calls[i].pc # "done" }

\* fetchPosts up to its first await: setLoading(true); setError(null); fetch(...)
FetchPostsStart ==
    /\ loading' = TRUE
    /\ error' = NULL
    /\ calls' = Append(calls, [pc |-> "awaitFetch", resp |-> Pending,
                               pre |-> posts, during |-> InFlight])
    /\ UNCHANGED <<posts, search, settled>>

\* useEffect(() => { fetchPosts(); }, [])
AppMount ==
    /\ root = "AppContent"
    /\ calls = <<>>
    /\ FetchPostsStart
    /\ UNCHANGED <<root, calc, listVars>>

\* a reload that is ignored while a request is loading
HandleReloadIgnoredWhileLoading ==
    /\ root = "AppContent"
    /\ calls # <<>>
    /\ Len(calls) < MaxCalls
    /\ ~loading
    /\ FetchPostsStart
    /\ UNCHANGED <<root, calc, listVars>>

\* onPress={handleReload}; the button is rendered in every state
HandleReload ==
    /\ root = "AppContent"
    /\ calls # <<>>
    /\ Len(calls) < MaxCalls
    /\ FetchPostsStart
    /\ UNCHANGED <<root, calc, listVars>>

\* a fetchPosts that appends the response to the stored list instead of replacing it
FetchPostsTryMerging(body) ==
    IF body.kind = "Products"
    THEN [threw |-> FALSE, posts |-> posts \o Slice(body.products, 0, MaxPosts)]
    ELSE [threw |-> TRUE, posts |-> <<>>]

\* a fetchPosts that stores the whole response (the slice is forgotten)
FetchPostsTryUncapped(body) ==
    IF body.kind = "Products"
    THEN [threw |-> FALSE, posts |-> body.products]
    ELSE [threw |-> TRUE, posts |-> <<>>]

\* a fetchPosts that treats an empty products array as a failure
FetchPostsTryRejectingEmpty(body) ==
    IF body.kind = "Products" /\ body.products # <<>>
    THEN [threw |-> FALSE, posts |-> Slice(body.products, 0, MaxPosts)]
    ELSE [threw |-> TRUE, posts |-> <<>>]

\* The try block after response.json() has produced `body`:
\*   const products = json.products; setPosts(products.slice(0, 30));
\* json.products throws on null, products.slice throws on undefined.
FetchPostsTry(body) ==
    IF body.kind = "Products"
    THEN [threw |-> FALSE, posts |-> Slice(body.products, 0, MaxPosts)]
    ELSE [threw |-> TRUE, posts |-> <<>>]

\* a catch block that only logs and leaves the error message as it is
FetchPostsCatchSilent == error

\* catch (error) { setError("Failed to fetch products. Please try again."); ... }
FetchPostsCatch == AppFetchFailed

\* finally { setLoading(false); }
FetchPostsFinally(i, resp) ==
    /\ loading' = FALSE
    /\ calls' = [calls EXCEPT ![i].pc = "done", ![i].resp = resp]
    /\ settled' = Append(settled, i)

\* await fetch(...) settles for invocation i
FetchPostsFetchSettle(i) ==
    /\ root = "AppContent"
    /\ i \in 1..Len(calls)
    /\ calls[i].pc = "awaitFetch"
    /\ \/ /\ error' = FetchPostsCatch
          /\ FetchPostsFinally(i, Rejected)
          /\ UNCHANGED <<posts, search>>
       \/ \E status \in Statuses :
            /\ calls' = [calls EXCEPT ![i].pc = "awaitJson", ![i].resp = Resolved(status)]
            /\ UNCHANGED <<posts, search, loading, error, settled>>
    /\ UNCHANGED <<root, calc, listVars>>

\* a fetchPosts that drops the result of every invocation but the most recently issued
FetchPostsJsonSettleNewestOnly(i) ==
    /\ root = "AppContent"
    /\ i \in 1..Len(calls)
    /\ calls[i].pc = "awaitJson"
    /\ \E body \in Bodies(AppBatches) :
         LET r == FetchPostsTry(body) IN
            /\ posts' = IF r.threw \/ i # Len(calls) THEN posts ELSE r.posts
            /\ error' = IF r.threw /\ i = Len(calls) THEN FetchPostsCatch ELSE error
            /\ FetchPostsFinally(i, WithBody(calls[i].resp, body))
    /\ UNCHANGED <<root, calc, search, listVars>>

\* await response.json() settles for invocation i, then the rest of fetchPosts runs
FetchPostsJsonSettle(i) ==
    /\ root = "AppContent"
    /\ i \in 1..Len(calls)
    /\ calls[i].pc = "awaitJson"
    /\ \E body \in Bodies(AppBatches) :
         LET r == FetchPostsTry(body) IN
            /\ posts' = IF r.threw THEN posts ELSE r.posts
            /\ error' = IF r.threw THEN FetchPostsCatch ELSE error
            /\ FetchPostsFinally(i, WithBody(calls[i].resp, body))
    /\ UNCHANGED <<root, calc, search, listVars>>

\* onChangeText={setSearch}
SetSearch(text) ==
    /\ root = "AppContent"
    /\ calls # <<>>
    /\ text # search
    /\ search' = text
    /\ UNCHANGED <<root, calc, posts, loading, error, calls, settled, listVars>>

----------------------------------------------------------------------------
(* PostsList *)

\* useEffect(() => { ...; fetchProducts(); }, [setProducts])
ListMount ==
    /\ root = "PostsList"
    /\ listCall.pc = "init"
    /\ listCall' = [pc |-> "awaitFetch", resp |-> Pending]
    /\ UNCHANGED <<root, calc, appVars, products, listLoading, listError, searchTerm,
                   filteredProducts>>

\* catch (error) { setError("Failed to load products."); setLoading(false); }
FetchProductsCatch ==
    /\ listError' = ListLoadFailed
    /\ listLoading' = FALSE
    /\ UNCHANGED <<products, filteredProducts>>

\* a fetchProducts whose else branch is missing: a body without products is dropped
FetchProductsBodyWithoutElse(body) ==
    IF body.kind = "Products"
    THEN /\ products' = body.products
         /\ filteredProducts' = body.products
         /\ listLoading' = FALSE
         /\ UNCHANGED listError
    ELSE UNCHANGED <<products, filteredProducts, listLoading, listError>>

\* if (data && data.products) { ... } else { setError("No products found."); ... }
FetchProductsBody(body) ==
    IF body.kind = "Products"
    THEN /\ products' = body.products
         /\ filteredProducts' = body.products
         /\ listLoading' = FALSE
         /\ UNCHANGED listError
    ELSE /\ listError' = ListNoProducts
         /\ listLoading' = FALSE
         /\ UNCHANGED <<products, filteredProducts>>

\* await fetch(...) settles
FetchProductsFetchSettle ==
    /\ root = "PostsList"
    /\ listCall.pc = "awaitFetch"
    /\ \/ /\ FetchProductsCatch
          /\ listCall' = [pc |-> "done", resp |-> Rejected]
       \/ \E status \in Statuses :
            /\ listCall' = [pc |-> "awaitJson", resp |-> Resolved(status)]
            /\ UNCHANGED <<products, listLoading, listError, filteredProducts>>
    /\ UNCHANGED <<root, calc, appVars, searchTerm>>

\* await response.json() settles, then the rest of fetchProducts runs
FetchProductsJsonSettle ==
    /\ root = "PostsList"
    /\ listCall.pc = "awaitJson"
    /\ \E body \in Bodies(ListBatches) :
         /\ IF body.kind = "BadJson"
            THEN FetchProductsCatch
            ELSE FetchProductsBody(body)
         /\ listCall' = [pc |-> "done", resp |-> WithBody(listCall.resp, body)]
    /\ UNCHANGED <<root, calc, appVars, searchTerm>>

\* a filter that lowercases the title but not the typed text
RECURSIVE FilterTextAsTyped(_, _)
FilterTextAsTyped(items, text) ==
    IF items = <<>> THEN <<>>
    ELSE LET rest == FilterTextAsTyped(Tail(items), text) IN
         IF Includes(ToLowerCase(Head(items).title), text)
         THEN <<Head(items)>> \o rest
         ELSE rest

\* a filter whose loop stops one match early
RECURSIVE FilterDroppingLastMatch(_, _)
FilterDroppingLastMatch(items, text) ==
    IF items = <<>> THEN <<>>
    ELSE LET rest == FilterDroppingLastMatch(Tail(items), text) IN
         IF Includes(ToLowerCase(Head(items).title), ToLowerCase(text))
            /\ \E k \in 1..Len(Tail(items)) :
                  Includes(ToLowerCase(Tail(items)[k].title), ToLowerCase(text))
         THEN <<Head(items)>> \o rest
         ELSE rest

\* products.filter((product) => product.title.toLowerCase().includes(text.toLowerCase()))
RECURSIVE Filter(_, _)
Filter(items, text) ==
    IF items = <<>> THEN <<>>
    ELSE LET rest == Filter(Tail(items), text) IN
         IF Includes(ToLowerCase(Head(items).title), ToLowerCase(text))
         THEN <<Head(items)>> \o rest
         ELSE rest

\* a handleSearch that shows nothing when the search text is cleared
HandleSearchResultClearing(items, text) ==
    IF text = <<>> THEN <<>> ELSE Filter(items, text)

\* the list handleSearch passes to setFilteredProducts
HandleSearchResult(items, text) ==
    IF text = <<>> THEN items ELSE Filter(items, text)

\* a handleSearch that writes the filtered list back into the shared store
HandleSearchNarrowingStore(text) ==
    /\ root = "PostsList"
    /\ listCall.pc # "init"
    /\ text # searchTerm
    /\ searchTerm' = text
    /\ filteredProducts' = HandleSearchResult(products, text)
    /\ products' = HandleSearchResult(products, text)
    /\ UNCHANGED <<root, calc, appVars, listLoading, listError, listCall>>

\* onChangeText={handleSearch}; the input is rendered in every state
HandleSearch(text) ==
    /\ root = "PostsList"
    /\ listCall.pc # "init"
    /\ text # searchTerm
    /\ searchTerm' = text
    /\ filteredProducts' = HandleSearchResult(products, text)
    /\ UNCHANGED <<root, calc, appVars, products, listLoading, listError, listCall>>

\* which branch of the returned view PostsList renders:
\*   loading ? spinner : error ? message : filteredProducts.length === 0 ? "No products found." : list
ListView ==
    IF listLoading THEN "spinner"
    ELSE IF listError # NULL THEN "error"
    ELSE IF Len(filteredProducts) = 0 THEN "empty"
    ELSE "list"

\* which part AppContent renders under the search bar:
\*   loading ? spinner : <PostsList searchQuery={search} posts={posts} />
AppView == IF loading THEN "spinner" ELSE "list"

----------------------------------------------------------------------------
Next ==
    \/ AppMount
    \/ HandleReload
    \/ \E i \in 1..MaxCalls : FetchPostsFetchSettle(i)
    \/ \E i \in 1..MaxCalls : FetchPostsJsonSettle(i)
    \/ \E text \in AppQueries : SetSearch(text)
    \/ ListMount
    \/ FetchProductsFetchSettle
    \/ FetchProductsJsonSettle
    \/ \E text \in Queries : HandleSearch(text)

Spec == Init /\ [][Next]_vars


\* every await that is pending settles sooner or later (the precondition of the
\* claims about what happens once the network call settles)
FairSpec ==
    /\ Spec
    /\ \A i \in 1..MaxCalls : WF_vars(FetchPostsFetchSettle(i))
    /\ \A i \in 1..MaxCalls : WF_vars(FetchPostsJsonSettle(i))
    /\ WF_vars(FetchProductsFetchSettle)
    /\ WF_vars(FetchProductsJsonSettle)

----------------------------------------------------------------------------
(* Vocabulary of the properties *)

IsCall(i) == i \in 1..Len(calls)
Done(i) == IsCall(i) /\ calls[i].pc = "done"

\* invocation i runs its finally in this step
Finishes(i) == IsCall(i) /\ calls[i].pc # "done" /\ calls'[i].pc = "done"
ListFinishes == listCall.pc # "done" /\ listCall'.pc = "done"

\* the request rejected, or the body could not be parsed as JSON
TransportFailures == {"Reject", "BadJson"}

\* the first min(MaxPosts, n) items of b, in order
FirstItems(b) == [k \in 1..Min(MaxPosts, Len(b)) |-> b[k]]

\* the invocations other than i that stored a response while i was in flight
StoredDuring(i) ==
    { j \in 1..Len(calls) :
        /\ j # i
        /\ calls[j].pc = "done"
        /\ calls[j].resp.kind = "Products"
        /\ (j \in calls[i].during \/ j > i) }

----------------------------------------------------------------------------
(* C1 *)

----------------------------------------------------------------------------
(* C2 *)

\* C2: a fetchPosts that succeeds leaves as catalog exactly the first
\* min(30, n) items of its n-item response, in response order, whatever was
\* stored before (a 30-item response is stored whole), and the catalog never
\* holds more than 30 items.
C2_CatalogReplacedByFirst30 ==
    /\ [](Len(posts) <= MaxPosts)
    /\ [][ \A i \in 1..MaxCalls :
             (Finishes(i) /\ calls'[i].resp.kind = "Products") =>
                LET b == calls'[i].resp.products IN
                   /\ Len(posts') = Min(MaxPosts, Len(b))
                   /\ \A k \in 1..Len(posts') : posts'[k] = b[k]
                   /\ (Len(b) = MaxPosts => posts' = b)
         ]_vars

\* a response longer than the cap was stored over a non-empty catalog
C2_Witness ==
    \E i \in 1..Len(calls) :
        /\ Done(i)
        /\ calls[i].resp.kind = "Products"
        /\ Len(calls[i].resp.products) > MaxPosts
        /\ calls[i].pre # <<>>
        /\ settled[Len(settled)] = i
        /\ Len(posts) = MaxPosts

----------------------------------------------------------------------------
(* C3 *)

\* invocations i and i+1 were in flight together, with no other invocation in
\* flight or finished since i was issued, and both have finished
OverlappedPair(i) ==
    /\ Done(i)
    /\ Done(i + 1)
    /\ calls[i].during = {}
    /\ calls[i + 1].during = {i}
    /\ \A k \in 1..Len(calls) : k > i + 1 => calls[k].pc # "done"

\* C3: when two fetchPosts invocations were in flight at once, then once both
\* have finished, in whichever order and with whichever outcomes, the catalog
\* is what exactly one of the two successful responses stores, or the catalog
\* from before the first of them when both failed: never a mix of both.
C3_OverlapYieldsOneResponse ==
    \A i \in 1..MaxCalls :
        OverlappedPair(i) =>
            LET won == { j \in {i, i + 1} : calls[j].resp.kind = "Products" } IN
               IF won = {}
               THEN posts = calls[i].pre
               ELSE \E j \in won : posts = FirstItems(calls[j].resp.products)

\* two overlapping invocations answered with different non-empty responses, the
\* later-issued one finishing first
C3_Witness ==
    /\ OverlappedPair(1)
    /\ settled = <<2, 1>>
    /\ calls[1].resp.kind = "Products"
    /\ calls[2].resp.kind = "Products"
    /\ calls[1].resp.products # <<>>
    /\ calls[2].resp.products # <<>>
    /\ calls[1].resp.products # calls[2].resp.products
    /\ posts = FirstItems(calls[1].resp.products)

----------------------------------------------------------------------------
(* C4 *)

\* C4: in PostsList, whenever loading = false and error = null, the visible
\* list filteredProducts is the filter applied to the stored products with the
\* current searchTerm.
C4_VisibleListIsFilterOfStore ==
    (root = "PostsList" /\ ~listLoading /\ listError = NULL) =>
        filteredProducts = HandleSearchResult(products, searchTerm)

----------------------------------------------------------------------------
(* C5 *)

\* the endpoint answered, with an HTTP status outside 200..299
NonSuccessStatus(resp) ==
    resp.kind \notin {"Pending", "Reject"} /\ resp.status \notin 200..299

\* C5: when the endpoint answers with a non-success HTTP status, whatever the
\* body, the cycle ends failed: error message non-null and catalog as before.
C5_NonSuccessStatusFails ==
    [][ /\ \A i \in 1..MaxCalls :
             (Finishes(i) /\ NonSuccessStatus(calls'[i].resp)) =>
                (posts' = posts /\ error' # NULL)
        /\ (ListFinishes /\ NonSuccessStatus(listCall'.resp)) =>
                (products' = products /\ listError' # NULL)
      ]_vars

----------------------------------------------------------------------------
(* C6 *)

\* C6: when the body parses but has no products field, the cycle fails: catalog
\* unchanged, error message non-null, and the message differs from the one the
\* same component shows for a transport failure.
C6_MissingFieldIsDistinctFailure ==
    [][ /\ \A i \in 1..MaxCalls :
             (Finishes(i) /\ calls'[i].resp.kind = "NoField") =>
                (posts' = posts /\ error' # NULL /\ error' # AppFetchFailed)
        /\ (ListFinishes /\ listCall'.resp.kind = "NoField") =>
                (products' = products /\ listError' # NULL /\ listError' # ListLoadFailed)
      ]_vars

----------------------------------------------------------------------------
(* C7 *)

\* title t, compared without regard to case, contains q as a substring
ContainsIgnoringCase(t, q) ==
    \E off \in 0..(Len(t) - Len(q)) :
        \A k \in 1..Len(q) : LowerChar(t[off + k]) = LowerChar(q[k])

\* r is the subsequence of L, in L's order, of all and only the items matching q
IsMatchingSubsequence(r, L, q) ==
    LET hits == { k \in 1..Len(L) : ContainsIgnoringCase(L[k].title, q) } IN
       /\ Len(r) = Cardinality(hits)
       /\ \E f \in [1..Len(r) -> 1..Len(L)] :
             /\ \A a, b \in 1..Len(r) : a < b => f[a] < f[b]
             /\ { f[a] : a \in 1..Len(r) } = hits
             /\ \A a \in 1..Len(r) : r[a] = L[f[a]]

\* C7: for every stored list L and every non-empty text q, handleSearch sets
\* the visible list to the subsequence of L, in L's order, of all and only the
\* items whose lowercased title contains the lowercased q.
C7_SearchSelectsMatchingSubsequence ==
    [][ (root = "PostsList" /\ searchTerm' # searchTerm /\ searchTerm' # <<>>) =>
            IsMatchingSubsequence(filteredProducts', products, searchTerm')
      ]_vars

\* an upper-case query selected a proper, non-contiguous part of the stored list
C7_Witness ==
    /\ root = "PostsList"
    /\ searchTerm = <<"H">>
    /\ Len(products) = 4
    /\ filteredProducts = <<products[2], products[3], products[4]>>
    /\ ~ContainsIgnoringCase(products[1].title, searchTerm)

----------------------------------------------------------------------------
(* C8 *)

\* C8: every fetch invocation whose awaits settle runs to its end whatever the
\* outcome (rejected request, unparseable body, body without products,
\* success): the step that ends it sets loading to false and either has
\* replaced the catalog by the response or has set an error message, and no
\* invocation stays in flight for ever.
C8_EverySettledFetchIsHandled ==
    /\ [][ /\ \A i \in 1..MaxCalls :
                Finishes(i) =>
                   /\ loading' = FALSE
                   /\ \/ /\ calls'[i].resp.kind = "Products"
                         /\ posts' = FirstItems(calls'[i].resp.products)
                      \/ error' # NULL
           /\ ListFinishes =>
                   /\ listLoading' = FALSE
                   /\ \/ /\ listCall'.resp.kind = "Products"
                         /\ products' = listCall'.resp.products
                      \/ listError' # NULL
         ]_vars
    /\ \A i \in 1..MaxCalls : (IsCall(i) /\ ~Done(i)) ~> Done(i)
    /\ (listCall.pc \in {"awaitFetch", "awaitJson"}) ~> (listCall.pc = "done" /\ ~listLoading)

\* a cycle whose body had no products field and a cycle whose request was
\* rejected have both ended, with the spinner off and an error shown
C8_Witness ==
    /\ Len(settled) = 2
    /\ calls[1].resp.kind = "NoField"
    /\ calls[2].resp.kind = "Reject"
    /\ ~loading
    /\ error # NULL

----------------------------------------------------------------------------
(* C9 *)

\* a reload is pressed in this step
ReloadStep == calls # <<>> /\ Len(calls') = Len(calls) + 1

\* C9: a reload pressed in any state of the mounted AppContent (loading or not,
\* with or without an error shown, with or without a request in flight) is
\* accepted: it sets loading, clears the error and issues a new request next to
\* the ones in flight, none of which it touches.
C9_ReloadAlwaysRestartsLoading ==
    /\ []((root = "AppContent" /\ calls # <<>> /\ Len(calls) < MaxCalls) => ENABLED HandleReload)
    /\ [][ ReloadStep =>
              /\ loading' = TRUE
              /\ error' = NULL
              /\ calls'[Len(calls')].pc = "awaitFetch"
              /\ \A i \in 1..Len(calls) : calls'[i] = calls[i]
         ]_vars

\* a reload was pressed while an earlier request was in flight and its error
\* and spinner state were replaced
C9_Witness ==
    /\ Len(calls) >= 2
    /\ calls[Len(calls)].during # {}
    /\ calls[Len(calls)].pc = "awaitFetch"
    /\ Len(calls) - 1 \in InFlight
    /\ loading
    /\ error = NULL

----------------------------------------------------------------------------
(* C10 *)

\* C10: a change of the search text issues no request and changes neither the
\* catalog nor the loading flag nor the error message: in PostsList it changes
\* searchTerm and filteredProducts only, in AppContent the search string only.
C10_SearchChangesNothingElse ==
    [][ /\ searchTerm' # searchTerm =>
              UNCHANGED <<root, calc, appVars, products, listLoading, listError, listCall>>
        /\ search' # search =>
              UNCHANGED <<root, calc, posts, loading, error, calls, settled, listVars>>
      ]_vars

\* a search narrowed the visible list while the store kept every product
C10_Witness ==
    /\ root = "PostsList"
    /\ searchTerm # <<>>
    /\ products # <<>>
    /\ Len(filteredProducts) < Len(products)


----------------------------------------------------------------------------
(* handleSearch and renderProduct taken alone, on arguments drawn at the start *)

\* longest item list handed to handleSearch
MaxItems == 3

\* an item of the response that carries no title field: product.title is undefined
Untitled(n) == [id |-> n]

HasTitle(item) == "title" \in DOMAIN item

SearchItems == { Item(1), Item(2), Item(3), Untitled(4) }

ItemLists == UNION { [1..n -> SearchItems] : n \in 0..MaxItems }

\* One run of handleSearch over `items`. With a non-empty text, filter calls
\* product.title.toLowerCase() on every element: on an element without title it
\* throws a TypeError, which nothing in handleSearch catches, so
\* setFilteredProducts is not reached.
HandleSearchPass(items, text) ==
    IF text # <<>> /\ \E k \in 1..Len(items) : ~HasTitle(items[k])
    THEN [raised |-> TRUE, items |-> <<>>]
    ELSE [raised |-> FALSE, items |-> HandleSearchResult(items, text)]

\* handleSearch runs on the stored list, then once more on the list it showed
ApplyHandleSearch ==
    /\ calc.op = "handleSearch"
    /\ Len(calc.passes) < 2
    /\ calc.passes # <<>> => ~calc.passes[1].raised
    /\ LET input == IF calc.passes = <<>> THEN calc.items ELSE calc.passes[1].items IN
          calc' = [calc EXCEPT !.passes = Append(@, HandleSearchPass(input, calc.text))]
    /\ UNCHANGED <<root, appVars, listVars>>

\* most reviews an item carries
MaxReviews == 2

\* JavaScript numbers, kept exact: a fraction num / den with den > 0, NaN, or a
\* signed infinity (num is its sign); rounding to binary floating point is left out
Number(n) == [kind |-> "finite", num |-> n, den |-> 1]
NaN == [kind |-> "NaN", num |-> 0, den |-> 1]
Infinity(sign) == [kind |-> "Infinity", num |-> sign, den |-> 1]

\* a - b, a * b and a / b on finite numbers; a / 0 is NaN or an infinity
Minus(a, b) == [kind |-> "finite", num |-> a.num * b.den - b.num * a.den, den |-> a.den * b.den]
Times(a, b) == [kind |-> "finite", num |-> a.num * b.num, den |-> a.den * b.den]
Divide(a, b) ==
    IF b.num = 0
    THEN IF a.num = 0 THEN NaN ELSE Infinity(IF a.num > 0 THEN 1 ELSE -1)
    ELSE IF b.num > 0
         THEN [kind |-> "finite", num |-> a.num * b.den, den |-> a.den * b.num]
         ELSE [kind |-> "finite", num |-> -(a.num * b.den), den |-> -(a.den * b.num)]

\* item.reviews is undefined when the field is missing; an empty array is truthy
HasReviews(item) == "reviews" \in DOMAIN item

\* item.reviews.reduce((acc, review) => acc + review.rating, 0)
RECURSIVE ReduceRatings(_, _)
ReduceRatings(reviews, acc) ==
    IF reviews = <<>> THEN acc
    ELSE ReduceRatings(Tail(reviews), acc + Head(reviews).rating)

\* const discountedPrice = item.price - (item.price * (item.discountPercentage / 100));
DiscountedPrice(item) ==
    Minus(Number(item.price),
          Times(Number(item.price), Divide(Number(item.discountPercentage), Number(100))))

\* const averageRating = item.reviews ? item.reviews.reduce(...) / item.reviews.length : 0;
AverageRating(item) ==
    IF HasReviews(item)
    THEN Divide(Number(ReduceRatings(item.reviews, 0)), Number(Len(item.reviews)))
    ELSE Number(0)

\* the fetched values renderProduct is given; nothing validates them
Prices == {0, 80, 100, -10}
Discounts == {0, 25, 100, 150, -20}
Ratings == {1, 4, 5}
ReviewLists ==
    UNION { [1..n -> { [rating |-> r] : r \in Ratings }] : n \in 0..MaxReviews }

RenderItems ==
    { [id |-> 1, price |-> p, discountPercentage |-> d] : p \in Prices, d \in Discounts }
    \cup { [id |-> 1, price |-> p, discountPercentage |-> d, reviews |-> rs] :
             p \in Prices, d \in Discounts, rs \in ReviewLists }

\* renderProduct computes the two derived values of the card
RenderProduct ==
    /\ calc.op = "renderProduct"
    /\ calc.out = <<>>
    /\ calc' = [calc EXCEPT !.out = << [discountedPrice |-> DiscountedPrice(calc.item),
                                        averageRating |-> AverageRating(calc.item)] >>]
    /\ UNCHANGED <<root, appVars, listVars>>

FunctionsInit ==
    /\ root = "Functions"
    /\ posts = InitialCatalog
    /\ search = <<>>
    /\ loading = FALSE
    /\ error = NULL
    /\ calls = <<>>
    /\ settled = <<>>
    /\ products = InitialCatalog
    /\ listLoading = TRUE
    /\ listError = NULL
    /\ searchTerm = <<>>
    /\ filteredProducts = <<>>
    /\ listCall = [pc |-> "init", resp |-> Pending]
    /\ calc \in { [op |-> "handleSearch", items |-> L, text |-> q, passes |-> <<>>] :
                    L \in ItemLists, q \in Queries }
               \cup { [op |-> "renderProduct", item |-> it, out |-> <<>>] :
                        it \in RenderItems }

FunctionsNext ==
    \/ ApplyHandleSearch
    \/ RenderProduct

FunctionsSpec == FunctionsInit /\ [][FunctionsNext]_vars

----------------------------------------------------------------------------
(* C11 *)

\* the display name of an item, the empty string when the title is missing
TitleOrEmpty(item) == IF HasTitle(item) THEN item.title ELSE <<>>

\* the items whose display name contains q without regard to case, in order
MatchingItems(L, q) ==
    LET Matches(item) == ContainsIgnoringCase(TitleOrEmpty(item), q) IN
       SelectSeq(L, Matches)

HasUntitled(L) == \E k \in 1..Len(L) : ~HasTitle(L[k])

\* C11: for every item list holding an item without title and every non-empty
\* text, the filter pass of handleSearch completes without raising and yields
\* the matching items among the titled ones (the title-less item counts as
\* having the empty display name and is left out).
C11_UntitledItemIsSkipped ==
    (calc.op = "handleSearch" /\ calc.passes # <<>>
        /\ HasUntitled(calc.items) /\ calc.text # <<>>) =>
        /\ ~calc.passes[1].raised
        /\ calc.passes[1].items = MatchingItems(calc.items, calc.text)

----------------------------------------------------------------------------
(* C13 *)

\* C13: for every item list L, handleSearch with the empty text shows L itself:
\* same items, same order, same length.
C13_EmptyQueryShowsWholeList ==
    (calc.op = "handleSearch" /\ calc.passes # <<>> /\ calc.text = <<>>) =>
        /\ ~calc.passes[1].raised
        /\ Len(calc.passes[1].items) = Len(calc.items)
        /\ \A k \in 1..Len(calc.items) : calc.passes[1].items[k] = calc.items[k]

\* handleSearch ran with the empty text over a full-length list with distinct items
C13_Witness ==
    /\ calc.op = "handleSearch"
    /\ calc.text = <<>>
    /\ Len(calc.passes) = 1
    /\ Len(calc.items) = MaxItems
    /\ calc.items[1] # calc.items[2]
    /\ HasUntitled(calc.items)

----------------------------------------------------------------------------
(* C14 *)

\* C14: for every item list L and every text q for which handleSearch yields a
\* list, running handleSearch with q on that list yields the same list again.
C14_FilterIsIdempotent ==
    (calc.op = "handleSearch" /\ Len(calc.passes) = 2) =>
        /\ ~calc.passes[2].raised
        /\ calc.passes[2].items = calc.passes[1].items

\* a non-empty text kept a proper, non-empty part of the list, and was applied again
C14_Witness ==
    /\ calc.op = "handleSearch"
    /\ Len(calc.passes) = 2
    /\ calc.text # <<>>
    /\ Len(calc.passes[1].items) > 1
    /\ Len(calc.passes[1].items) < Len(calc.items)


----------------------------------------------------------------------------
(* C12 *)

\* the reviews of an item, none when the field is missing
ReviewsOf(item) == IF HasReviews(item) THEN item.reviews ELSE <<>>

RECURSIVE SumOfRatings(_)
SumOfRatings(reviews) ==
    IF reviews = <<>> THEN 0
    ELSE reviews[Len(reviews)].rating + SumOfRatings(SubSeq(reviews, 1, Len(reviews) - 1))

\* C12: for every item, the average rating renderProduct computes is the
\* arithmetic mean of its review ratings when it has at least one review, and 0
\* when it has none, whether the reviews field is missing or an empty array.
C12_AverageRatingIsMeanOrZero ==
    (calc.op = "renderProduct" /\ calc.out # <<>>) =>
        LET avg == calc.out[1].averageRating
            rs == ReviewsOf(calc.item) IN
           /\ avg.kind = "finite"
           /\ avg.num * Len(rs) = SumOfRatings(rs) * avg.den
           /\ (rs = <<>> => avg.num = 0)

----------------------------------------------------------------------------
(* C16 *)

\* C16: for every fetched item, whatever its price and discountPercentage, the
\* discounted price renderProduct computes is price * (1 - discountPercentage /
\* 100) raised to 0 when that is negative; for price 100 and discount 25 it is 75.
C16_DiscountedPriceIsClamped ==
    (calc.op = "renderProduct" /\ calc.out # <<>>) =>
        LET dp == calc.out[1].discountedPrice
            cents == calc.item.price * (100 - calc.item.discountPercentage) IN
           /\ dp.kind = "finite"
           /\ dp.num * 100 = (IF cents < 0 THEN 0 ELSE cents) * dp.den
           /\ dp.num >= 0


----------------------------------------------------------------------------
(* C15 *)

\* the invocations other than i that ended in the catch block while i was in flight
FailedDuring(i) ==
    { j \in 1..Len(calls) :
        /\ j # i
        /\ calls[j].pc = "done"
        /\ calls[j].resp.kind # "Products"
        /\ (j \in calls[i].during \/ j > i) }

\* the request succeeded and its products array is present and empty
EmptyResult(resp) ==
    resp.kind = "Products" /\ resp.products = <<>> /\ resp.status \in 200..299

----------------------------------------------------------------------------
(* C17 *)

\* C17: in AppContent, loading is true whenever at least one fetchPosts
\* invocation is still in flight, overlapping reloads included.
C17_LoadingWhileInFlight ==
    (root = "AppContent" /\ InFlight # {}) => (loading /\ AppView = "spinner")

----------------------------------------------------------------------------
(* C18 *)

\* the invocation whose successful response was stored last
LastStored ==
    LET at == { k \in 1..Len(settled) : calls[settled[k]].resp.kind = "Products" } IN
       settled[CHOOSE k \in at : \A m \in at : m <= k]

SomeStored == \E k \in 1..Len(settled) : calls[settled[k]].resp.kind = "Products"

\* C18: in AppContent no in-flight invocation is cancelled by a later one and no
\* result is dropped: every invocation in flight can still settle, every
\* successful response is stored in the step that resolves it, and once all
\* invocations have resolved the catalog is the response of the successful
\* invocation that resolved last, whichever was issued first.
C18_LastResolvedSuccessWins ==
    /\ [](\A i \in 1..MaxCalls :
            (root = "AppContent" /\ i \in InFlight) =>
                ENABLED (FetchPostsFetchSettle(i) \/ FetchPostsJsonSettle(i)))
    /\ []((InFlight = {} /\ SomeStored) =>
            posts = FirstItems(calls[LastStored].resp.products))
    /\ [][ \A i \in 1..MaxCalls :
             (Finishes(i) /\ calls'[i].resp.kind = "Products") =>
                posts' = FirstItems(calls'[i].resp.products)
         ]_vars

\* the invocation issued first resolved last, and its cut-down response is the
\* catalog, not the response of the invocation issued after it
C18_Witness ==
    /\ Len(calls) = 2
    /\ InFlight = {}
    /\ calls[2].during = {1}
    /\ settled[Len(settled)] = 1
    /\ calls[1].resp.kind = "Products"
    /\ calls[2].resp.kind = "Products"
    /\ Len(calls[1].resp.products) > MaxPosts
    /\ Len(posts) = MaxPosts
    /\ posts # FirstItems(calls[2].resp.products)

----------------------------------------------------------------------------
(* C19 *)

\* C19: in AppContent, whenever no fetch is in flight and at least one has
\* resolved, the error message is non-null exactly when the fetch that resolved
\* last failed.
C19_ErrorTracksLastResolved ==
    (root = "AppContent" /\ InFlight = {} /\ settled # <<>>) =>
        (error # NULL <=> calls[settled[Len(settled)]].resp.kind # "Products")

====
